---------------------------- MODULE Spec2Model ----------------------------
(***************************************************************************)
(* A model of src/project1.py: the PDF merger's page-exclusion parser      *)
(* (PdfMergerApp.apply_page_removal), the list and label bookkeeping of    *)
(* the window, the preview procedure and its temporary files, and the      *)
(* background merge (MergeWorker.run) with the signals it emits.           *)
(*                                                                         *)
(* A PDF is a path; the PDF library is the function Pages that gives the   *)
(* number of pages behind a path.  A page is the pair <<path, k>>.  A text *)
(* is a sequence of one-character strings.                                 *)
(***************************************************************************)
EXTENDS Integers, Sequences, FiniteSets, TLC

\* ------------------------------------------------------------------ bounds

\* Longest content of the page-range line edit (characters).
MaxLen == 5
\* Longest file list handed to one MergeWorker.
MaxFiles == 4
\* Largest absolute position an exclusion set of the merge runs contains.
MaxExcl == 6
\* Longest list the window holds in the interactive models.
MaxList == 2
\* Merge jobs launched in one session.
MaxMerges == 2
\* Previews requested in one session.
MaxPreviews == 2

\* ------------------------------------------------------- the PDF library

\* The files on disk, and len(PdfReader(path).pages) for each.
Docs == {"a.pdf", "b.pdf", "c.pdf"}

Pages(path) ==
    CASE path = "a.pdf" -> 2
      [] path = "b.pdf" -> 3
      [] path = "c.pdf" -> 1

\* reader.pages of one document, in its native order.
ReaderPages(path) == [k \in 1..Pages(path) |-> <<path, k>>]

\* ------------------------------------------------------------------ texts

Digits == {"1", "2"}

\* The characters a text is made of: digits, the two separators, a space
\* and one character that is none of them.
Alphabet == Digits \cup {",", "-", " ", "a"}

Texts == UNION {[1..n -> Alphabet] : n \in 0..MaxLen}

DigitVal(c) == IF c = "1" THEN 1 ELSE 2

\* str.replace(" ", "")
RemoveSpaces(s) == SelectSeq(s, LAMBDA c : c # " ")

\* The positions of sep in s, in increasing order, framed by 0 and Len(s)+1.
RECURSIVE SepPositions(_, _, _)
SepPositions(s, sep, from) ==
    IF from > Len(s) THEN <<Len(s) + 1>>
    ELSE IF s[from] = sep THEN <<from>> \o SepPositions(s, sep, from + 1)
    ELSE SepPositions(s, sep, from + 1)

\* str.split(sep): the pieces between the separators; a text without the
\* separator (the empty text too) is one piece.
Split(s, sep) ==
    LET cuts == <<0>> \o SepPositions(s, sep, 1)
    IN  [k \in 1..(Len(cuts) - 1) |-> SubSeq(s, cuts[k] + 1, cuts[k + 1] - 1)]

Contains(s, c) == \E k \in 1..Len(s) : s[k] = c

\* Whether int(tok) returns: here tok holds no space and no sign that int
\* would accept, so it must be a non-empty run of digits.
IsInt(tok) == Len(tok) > 0 /\ \A k \in 1..Len(tok) : tok[k] \in Digits

\* int(tok), in base ten.
RECURSIVE IntOf(_)
IntOf(tok) ==
    IF Len(tok) = 0 THEN 0
    ELSE 10 * IntOf(SubSeq(tok, 1, Len(tok) - 1)) + DigitVal(tok[Len(tok)])

\* range(a, b + 1)
PyRange(a, b) == a..b

\* One pass of the loop body of apply_page_removal over `part`, from the
\* set built so far: the set after it and whether the body raised.
ApplyPart(part, acc) ==
    IF Contains(part, "-")
    THEN LET ab == Split(part, "-")
         IN  IF Len(ab) = 2 /\ IsInt(ab[1]) /\ IsInt(ab[2])
             THEN [set |-> acc \cup PyRange(IntOf(ab[1]), IntOf(ab[2])), raised |-> FALSE]
             ELSE [set |-> acc, raised |-> TRUE]
    ELSE IF IsInt(part)
         THEN [set |-> acc \cup {IntOf(part)}, raised |-> FALSE]
         ELSE [set |-> acc, raised |-> TRUE]

\* The loop over text.split(","): it stops at the first part that raises
\* and keeps what the parts before it added.
RECURSIVE ApplyParts(_, _, _)
ApplyParts(parts, k, acc) ==
    IF k > Len(parts) THEN [set |-> acc, raised |-> FALSE]
    ELSE LET r == ApplyPart(parts[k], acc)
         IN  IF r.raised THEN r ELSE ApplyParts(parts, k + 1, r.set)

\* The set the parse would start from were the clear() missing.
NotCleared(old) == old

\* self.excluded_pages.clear(): the set the parse starts from.
Cleared(old) == {}

\* ------------------------------------------------------------------- state

VARIABLES
    list_widget,        \* the paths of the list's items, in list order
    buttons_enabled,    \* preview_btn / merge_btn, as update_buttons left them
    page_input,         \* the text of the page-range line edit
    excluded_pages,     \* self.excluded_pages: ONE set object, shared with workers
    page_count_label,   \* the number shown after "Total pages:"
    apply_result,       \* apply_page_removal on this text: "none" (not run) | "ok" | "warning"
    excluded_before,    \* excluded_pages when the last apply_page_removal began
    temp_preview_files, \* self.temp_preview_files
    temp_created,       \* the temporary files that exist or existed on disk
    temp_removed,       \* the files closeEvent passed to os.remove
    previews,           \* how the previews ended, oldest first
    closed,             \* closeEvent ran
    workers,            \* the MergeWorkers started, oldest first
    aborted             \* the process was aborted by Qt

appvars == <<list_widget, buttons_enabled, page_input, excluded_pages,
             page_count_label, apply_result, excluded_before>>
tempvars == <<temp_preview_files, temp_created, temp_removed, previews, closed>>
vars == <<list_widget, buttons_enabled, page_input, excluded_pages,
          page_count_label, apply_result, excluded_before,
          temp_preview_files, temp_created, temp_removed, previews, closed,
          workers, aborted>>

\* ------------------------------------------------------------ the window

RECURSIVE SumPages(_)
SumPages(files) ==
    IF Len(files) = 0 THEN 0
    ELSE Pages(files[1]) + SumPages(Tail(files))

Max(a, b) == IF a >= b THEN a ELSE b

\* update_page_count: the label's number for a list and an exclusion set.
PageCountLabel(files, excluded) ==
    Max(SumPages(files) - Cardinality(excluded), 0)

\* update_buttons
ButtonsEnabled(files) == Len(files) >= 2

Alive == ~closed /\ ~aborted

\* add_pdf(path), reached from add_files and dropEvent.
add_pdf(path) ==
    /\ Alive
    /\ Len(list_widget) < MaxList
    /\ list_widget' = Append(list_widget, path)
    /\ page_count_label' = PageCountLabel(list_widget', excluded_pages)
    /\ buttons_enabled' = ButtonsEnabled(list_widget')
    /\ UNCHANGED <<page_input, excluded_pages, apply_result, excluded_before,
                   tempvars, workers, aborted>>

\* The list without its row k.
WithoutRow(files, k) == SubSeq(files, 1, k - 1) \o SubSeq(files, k + 1, Len(files))

\* remove_selected with row k selected (the list's selection mode is the
\* default one, a single row).
remove_selected(k) ==
    /\ Alive
    /\ k \in 1..Len(list_widget)
    /\ list_widget' = WithoutRow(list_widget, k)
    /\ page_count_label' = PageCountLabel(list_widget', excluded_pages)
    /\ buttons_enabled' = ButtonsEnabled(list_widget')
    /\ UNCHANGED <<page_input, excluded_pages, apply_result, excluded_before,
                   tempvars, workers, aborted>>

\* The list with row k dragged to position to (QListWidget.InternalMove):
\* no handler of the window runs, the label and the buttons stay.
Moved(files, k, to) ==
    LET rest == WithoutRow(files, k)
    IN  SubSeq(rest, 1, to - 1) \o <<files[k]>> \o SubSeq(rest, to, Len(rest))

reorder(k, to) ==
    /\ Alive
    /\ k \in 1..Len(list_widget)
    /\ to \in 1..Len(list_widget)
    /\ to # k
    /\ list_widget' = Moved(list_widget, k, to)
    /\ list_widget' # list_widget
    /\ UNCHANGED <<buttons_enabled, page_input, excluded_pages, page_count_label,
                   apply_result, excluded_before, tempvars, workers, aborted>>

\* The user edits the page-range line edit.
edit_page_input(text) ==
    /\ Alive
    /\ text # page_input
    /\ page_input' = text
    /\ apply_result' = "none"
    /\ UNCHANGED <<list_widget, buttons_enabled, excluded_pages, page_count_label,
                   excluded_before, tempvars, workers, aborted>>

\* apply_page_removal: clear the set, then either the empty text (label
\* refreshed, return), or the loop over the parts; the label is refreshed
\* only when no part raised, the warning box is shown when one did.
apply_page_removal ==
    /\ Alive
    /\ LET text == RemoveSpaces(page_input)
           r == IF Len(text) = 0
                THEN [set |-> Cleared(excluded_pages), raised |-> FALSE]
                ELSE ApplyParts(Split(text, ","), 1, Cleared(excluded_pages))
       IN  /\ excluded_pages' = r.set
           /\ apply_result' = IF r.raised THEN "warning" ELSE "ok"
           /\ page_count_label' = IF r.raised THEN page_count_label
                                  ELSE PageCountLabel(list_widget, r.set)
    /\ excluded_before' = excluded_pages
    /\ UNCHANGED <<list_widget, buttons_enabled, page_input, tempvars, workers, aborted>>

\* ------------------------------------------------------------ the preview

\* How one preview_merged can go: a PdfReader raises (before any temporary
\* file exists), NamedTemporaryFile raises, writer.write raises (the file
\* exists by then), or the file is written, tracked and handed to the viewer.
PreviewOutcomes == {"reader_raised", "tempfile_raised", "write_raised", "opened"}

\* The name NamedTemporaryFile gives its next file.
NextTemp == Cardinality(temp_created) + 1

\* preview_merged (the Preview button, or a double click on an item).
preview_merged(outcome) ==
    /\ Alive
    /\ Len(list_widget) >= 2
    /\ Len(previews) < MaxPreviews
    /\ previews' = Append(previews, outcome)
    /\ temp_created' = IF outcome \in {"write_raised", "opened"}
                       THEN temp_created \cup {NextTemp}
                       ELSE temp_created
    /\ temp_preview_files' = IF outcome = "opened"
                             THEN Append(temp_preview_files, NextTemp)
                             ELSE temp_preview_files
    /\ UNCHANGED <<appvars, temp_removed, closed, workers, aborted>>

\* closeEvent: os.remove on every tracked file, failures swallowed.
closeEvent ==
    /\ Alive
    /\ temp_removed' = {temp_preview_files[k] : k \in 1..Len(temp_preview_files)}
    /\ closed' = TRUE
    /\ UNCHANGED <<appvars, temp_preview_files, temp_created, previews, workers, aborted>>

\* -------------------------------------------------------------- the worker

ProgressEvent(percent, file, total) ==
    [type |-> "progress", percent |-> percent, file |-> file, total |-> total]
FinishedEvent == [type |-> "finished", percent |-> 0, file |-> 0, total |-> 0]
ErrorEvent == [type |-> "error", percent |-> 0, file |-> 0, total |-> 0]

\* MergeWorker.__init__ and the first three lines of run.  The worker keeps
\* the list it is given (get_files builds a new one) and a REFERENCE to the
\* window's exclusion set: run reads excluded_pages itself.  excluded_at_start
\* records the set's content when the worker was made; the code keeps no such copy.
NewWorker(files, excluded) ==
    [files |-> files, i |-> 0, j |-> 0, current_page |-> 1, writer |-> <<>>,
     pc |-> IF Len(files) = 0 THEN "open" ELSE "reader",
     events |-> <<>>, readers |-> <<>>, output |-> "untouched", written |-> <<>>,
     failed |-> "no", excluded_at_start |-> excluded]

\* The percentage computed from the 0-based index, without the "+ 1".
PercentOfIndex(i, total_files) == (i * 100) \div total_files

\* int(((i + 1) / total_files) * 100).  The quotient and the product are
\* doubles; for total_files < 50 the truncated product is the integer
\* quotient below (the first difference is i + 1 = 29, total_files = 50).
Percent(i, total_files) == ((i + 1) * 100) \div total_files

\* An except clause inside the loop: the error is emitted and a failure
\* of a source goes on to the next one.
RaisedSkipsSource(wk, where) ==
    [wk EXCEPT !.events = Append(@, ErrorEvent), !.failed = where,
               !.pc = IF where \in {"reader", "page"} THEN "progress" ELSE "done"]

\* except Exception as e: self.error.emit(str(e)) -- run returns.
Raised(wk, where) ==
    [wk EXCEPT !.events = Append(@, ErrorEvent), !.pc = "done", !.failed = where]

\* PdfReader(pdf) is called on the source at index i.
Called(wk) == [wk EXCEPT !.readers = Append(@, wk.i)]

\* reader = PdfReader(pdf) returned: the inner loop starts.
Opened(wk) ==
    [Called(wk) EXCEPT !.j = 0,
                       !.pc = IF Pages(wk.files[wk.i + 1]) = 0 THEN "progress" ELSE "pages"]

\* The inner loop with "current_page += 1" inside the if: the counter
\* advances for the copied pages only.
CopiedCountsCopies(wk, excluded) ==
    LET page == ReaderPages(wk.files[wk.i + 1])[wk.j + 1]
        keep == wk.current_page \notin excluded
    IN  [wk EXCEPT !.writer = IF keep THEN Append(@, page) ELSE @,
                   !.current_page = IF keep THEN @ + 1 ELSE @,
                   !.j = @ + 1,
                   !.pc = IF wk.j + 1 = Pages(wk.files[wk.i + 1])
                          THEN "progress" ELSE "pages"]

\* One pass of the inner loop over the page after the j read so far.
Copied(wk, excluded) ==
    LET page == ReaderPages(wk.files[wk.i + 1])[wk.j + 1]
    IN  [wk EXCEPT !.writer = IF wk.current_page \notin excluded
                              THEN Append(@, page) ELSE @,
                   !.current_page = @ + 1,
                   !.j = @ + 1,
                   !.pc = IF wk.j + 1 = Pages(wk.files[wk.i + 1])
                          THEN "progress" ELSE "pages"]

\* percent = ...; self.progress.emit(percent, "Merging file i+1 of total").
Progressed(wk) ==
    LET total_files == Len(wk.files)
    IN  [wk EXCEPT !.events = Append(@, ProgressEvent(Percent(wk.i, total_files),
                                                      wk.i + 1, total_files)),
                   !.i = @ + 1,
                   !.pc = IF wk.i + 1 = total_files THEN "open" ELSE "reader"]

\* open(self.output, "wb") returned: the file exists and is empty.
OutputOpened(wk) == [wk EXCEPT !.output = "opened", !.pc = "write"]

\* writer.write(f) returned and the file was closed.
Written(wk) == [wk EXCEPT !.output = "written", !.written = wk.writer, !.pc = "finished"]

\* A failed write that reports the error and falls through to the
\* finished.emit() after the with block.
WriteRaisedFallsThrough(wk) ==
    [wk EXCEPT !.output = "partial", !.failed = "write",
               !.events = Append(@, ErrorEvent), !.pc = "finished"]

\* writer.write(f) raised: the file holds what was written until then.
WriteRaised(wk) == Raised([wk EXCEPT !.output = "partial"], "write")

\* self.finished.emit()
Finished(wk) == [wk EXCEPT !.events = Append(@, FinishedEvent), !.pc = "done"]

Running(wk) == wk.pc # "done"

\* One step of the run of worker w; `ok` is whether the library or the
\* file system call of the step returns (TRUE) or raises (FALSE).
run_reader(w, ok) ==
    /\ workers[w].pc = "reader"
    /\ workers' = [workers EXCEPT ![w] = IF ok THEN Opened(@)
                                         ELSE Raised(Called(@), "reader")]

\* The membership test reads the window's set as it is at this moment.
\* apply_page_removal is one step here; in the code a worker can also see
\* the set between its clear() and its additions, which adds behaviours in
\* which the set differs from the one at launch and removes none.
run_pages(w, ok) ==
    /\ workers[w].pc = "pages"
    /\ workers' = [workers EXCEPT ![w] = IF ok THEN Copied(@, excluded_pages)
                                         ELSE Raised(@, "page")]

run_progress(w) ==
    /\ workers[w].pc = "progress"
    /\ workers' = [workers EXCEPT ![w] = Progressed(@)]

run_open(w, ok) ==
    /\ workers[w].pc = "open"
    /\ workers' = [workers EXCEPT ![w] = IF ok THEN OutputOpened(@) ELSE Raised(@, "open")]

run_write(w, ok) ==
    /\ workers[w].pc = "write"
    /\ workers' = [workers EXCEPT ![w] = IF ok THEN Written(@) ELSE WriteRaised(@)]

run_finished(w) ==
    /\ workers[w].pc = "finished"
    /\ workers' = [workers EXCEPT ![w] = Finished(@)]

\* MergeWorker.run, one step at a time.
run(w) ==
    /\ Alive
    /\ \/ \E ok \in BOOLEAN : run_reader(w, ok)
       \/ \E ok \in BOOLEAN : run_pages(w, ok)
       \/ run_progress(w)
       \/ \E ok \in BOOLEAN : run_open(w, ok)
       \/ \E ok \in BOOLEAN : run_write(w, ok)
       \/ run_finished(w)
    /\ UNCHANGED <<appvars, tempvars, aborted>>

\* merge_pdfs with a path chosen in the save dialog.  self.worker is
\* replaced: if the worker it held is still running, its QThread object
\* loses its last reference while its thread runs.  What follows is not
\* defined by the code: Qt aborts the process ("QThread: Destroyed while
\* thread is still running") or, the object being kept alive by the frame
\* of its own run, both threads go on.  `survives` chooses.
merge_pdfs(survives) ==
    /\ Alive
    /\ buttons_enabled
    /\ Len(workers) < MaxMerges
    /\ IF Len(workers) > 0 /\ Running(workers[Len(workers)]) /\ ~survives
       THEN /\ aborted' = TRUE
            /\ UNCHANGED workers
       ELSE /\ workers' = Append(workers, NewWorker(list_widget, excluded_pages))
            /\ UNCHANGED aborted
    /\ UNCHANGED <<appvars, tempvars>>

\* --------------------------------------------------------- specifications

\* The window after PdfMergerApp.__init__.
Init ==
    /\ list_widget = <<>>
    /\ buttons_enabled = FALSE
    /\ page_input = <<>>
    /\ excluded_pages = {}
    /\ page_count_label = 0
    /\ apply_result = "none"
    /\ excluded_before = {}
    /\ temp_preview_files = <<>>
    /\ temp_created = {}
    /\ temp_removed = {}
    /\ previews = <<>>
    /\ closed = FALSE
    /\ workers = <<>>
    /\ aborted = FALSE

\* The documents the user adds in the interactive models.
AddedDocs == {"a.pdf", "c.pdf"}

\* What the user types while merge jobs run: a page of the list.
MergeTexts == {<<"2">>}

NextMerge ==
    \/ \E path \in AddedDocs : add_pdf(path)
    \/ \E k \in 1..MaxList : remove_selected(k)
    \/ \E k, to \in 1..MaxList : reorder(k, to)
    \/ \E text \in MergeTexts : edit_page_input(text)
    \/ apply_page_removal
    \/ \E survives \in BOOLEAN : merge_pdfs(survives)
    \/ \E w \in DOMAIN workers : run(w)

\* The window and the merge jobs it starts.  preview_merged and closeEvent
\* read and write nothing of a merge job, and a job nothing of theirs:
\* they are in SpecPreview.
Spec == Init /\ [][NextMerge]_vars

\* What the user types in the preview model: nothing, a page, a page past
\* the end of any list, a range, a good part followed by a bad one.
TypedTexts ==
    {<<>>, <<"1">>, <<"1", "2">>, <<"1", "-", "2">>, <<"2", ",", "a">>}

NextPreview ==
    \/ \E path \in AddedDocs : add_pdf(path)
    \/ \E k \in 1..MaxList : remove_selected(k)
    \/ \E k, to \in 1..MaxList : reorder(k, to)
    \/ \E text \in TypedTexts : edit_page_input(text)
    \/ apply_page_removal
    \/ \E outcome \in PreviewOutcomes : preview_merged(outcome)
    \/ closeEvent

\* The window, its previews and its shutdown.
SpecPreview == Init /\ [][NextPreview]_vars

\* Lists of 1..MaxFiles paths.
FileLists == UNION {[1..n -> Docs] : n \in 1..MaxFiles}

\* One MergeWorker on its own: any list, any exclusion set, and nothing
\* else touching the set while it runs.
InitRun ==
    /\ list_widget = <<>>
    /\ buttons_enabled = FALSE
    /\ page_input = <<>>
    /\ excluded_pages \in SUBSET (1..MaxExcl)
    /\ page_count_label = 0
    /\ apply_result = "none"
    /\ excluded_before = {}
    /\ temp_preview_files = <<>>
    /\ temp_created = {}
    /\ temp_removed = {}
    /\ previews = <<>>
    /\ closed = FALSE
    /\ \E files \in FileLists : workers = <<NewWorker(files, excluded_pages)>>
    /\ aborted = FALSE

NextRun == \E w \in DOMAIN workers : run(w)

SpecRun == InitRun /\ [][NextRun]_vars

\* Exclusion sets left by earlier expressions.
EarlierSets == {{}, {1}, {2, 11}}

\* apply_page_removal on its own: a text in the line edit, the set an
\* earlier expression left, a list of two documents.
InitParse ==
    /\ list_widget = <<"a.pdf", "b.pdf">>
    /\ buttons_enabled = TRUE
    /\ page_input \in Texts
    /\ excluded_pages \in EarlierSets
    /\ page_count_label = PageCountLabel(list_widget, excluded_pages)
    /\ apply_result = "none"
    /\ excluded_before = {}
    /\ temp_preview_files = <<>>
    /\ temp_created = {}
    /\ temp_removed = {}
    /\ previews = <<>>
    /\ closed = FALSE
    /\ workers = <<>>
    /\ aborted = FALSE

NextParse == apply_page_removal

SpecParse == InitParse /\ [][NextParse]_vars

\* ------------------------------------------------------------- the claims

\* All pages of the documents of a list, in list order, each document in
\* its native order: position p of it is absolute position p.
RECURSIVE Concatenation(_)
Concatenation(files) ==
    IF Len(files) = 0 THEN <<>>
    ELSE ReaderPages(files[1]) \o Concatenation(Tail(files))

\* The pages of `all` from position p on whose position is not excluded.
RECURSIVE KeptFrom(_, _, _)
KeptFrom(all, p, excluded) ==
    IF p > Len(all) THEN <<>>
    ELSE (IF p \in excluded THEN <<>> ELSE <<all[p]>>) \o KeptFrom(all, p + 1, excluded)

Kept(files, excluded) == KeptFrom(Concatenation(files), 1, excluded)

WorkerIds == DOMAIN workers

\* C1: the file a MergeWorker writes holds exactly the pages of the
\* concatenation of its sources whose 1-based absolute position is not in
\* the exclusion set, in their original order, and by then the counter has
\* advanced once for every source page, copied or not.
C1_OutputIsTheKeptPages ==
    \A w \in WorkerIds :
        LET wk == workers[w]
        IN  wk.output = "written" =>
              /\ wk.written = Kept(wk.files, excluded_pages)
              /\ wk.current_page = SumPages(wk.files) + 1

\* Documents of 2, 3 and 1 pages with {1, 4, 6} excluded: positions 2, 3, 5 remain.
C1_Witness ==
    \E w \in WorkerIds :
        /\ workers[w].files = <<"a.pdf", "b.pdf", "c.pdf">>
        /\ excluded_pages = {1, 4, 6}
        /\ workers[w].output = "written"
        /\ workers[w].written = << <<"a.pdf", 2>>, <<"b.pdf", 1>>, <<"b.pdf", 3>> >>

\* The parts of a text: its pieces between commas, spaces removed.
Parts(text) == LET parts == Split(RemoveSpaces(text), ",")
               IN  {parts[k] : k \in 1..Len(parts)}

IsNumber(tok) == Len(tok) > 0 /\ \A k \in 1..Len(tok) : tok[k] \in Digits

\* tok is a-b: numbers on both sides of its hyphen at position h.
IsRangeAt(tok, h) ==
    /\ h \in 1..Len(tok)
    /\ tok[h] = "-"
    /\ IsNumber(SubSeq(tok, 1, h - 1))
    /\ IsNumber(SubSeq(tok, h + 1, Len(tok)))

IsRange(tok) == \E h \in 1..Len(tok) : IsRangeAt(tok, h)

Blank(text) == \A k \in 1..Len(text) : text[k] = " "

WellFormed(text) == \A tok \in Parts(text) : IsNumber(tok) \/ IsRange(tok)

\* The pages a well-formed part names.
PagesOf(tok) ==
    IF IsNumber(tok) THEN {IntOf(tok)}
    ELSE LET h == CHOOSE h \in 1..Len(tok) : IsRangeAt(tok, h)
             a == IntOf(SubSeq(tok, 1, h - 1))
             b == IntOf(SubSeq(tok, h + 1, Len(tok)))
         IN  {n \in 0..b : a <= n}

\* C2: after apply_page_removal on a well-formed expression no warning was
\* raised and the exclusion set is exactly the union of the pages its parts
\* name (nothing for a range a-b with a > b), whatever the set held before;
\* a blank expression leaves the empty set and raises nothing.
C2_WellFormedExpressionSetsExactlyItsPages ==
    apply_result # "none" =>
        /\ WellFormed(page_input) =>
              /\ apply_result = "ok"
              /\ excluded_pages = UNION {PagesOf(tok) : tok \in Parts(page_input)}
        /\ Blank(page_input) => apply_result = "ok" /\ excluded_pages = {}

\* "1,2-2" applied over the set {2, 11}: {1, 2}, and 11 is gone.
C2_Witness ==
    /\ apply_result = "ok"
    /\ page_input = <<"1", ",", "2", "-", "2">>
    /\ excluded_before = {2, 11}
    /\ excluded_pages = {1, 2}

\* C3: when apply_page_removal ends with the invalid-format warning, the
\* exclusion set is the one it was before the call.
C3_FailedParseLeavesSetUnchanged ==
    apply_result = "warning" => excluded_pages = excluded_before

\* C4: a source that cannot be opened or read aborts the run at that
\* source: PdfReader was called on the sources up to it and on none after
\* it, the error event is the last event, no completion event exists and the
\* output path was never opened.
C4_UnreadableSourceAborts ==
    \A w \in WorkerIds :
        LET wk == workers[w]
        IN  wk.failed \in {"reader", "page"} =>
              /\ wk.pc = "done"
              /\ wk.readers = [k \in 1..(wk.i + 1) |-> k - 1]
              /\ Len(wk.events) > 0
              /\ wk.events[Len(wk.events)] = ErrorEvent
              /\ \A k \in 1..Len(wk.events) : wk.events[k].type # "finished"
              /\ wk.output = "untouched"
              /\ wk.written = <<>>

\* The second of three sources fails to open.
C4_Witness ==
    \E w \in WorkerIds :
        /\ workers[w].failed = "reader"
        /\ workers[w].i = 1
        /\ Len(workers[w].files) = 3
        /\ workers[w].pc = "done"

Terminal(e) == e.type \in {"finished", "error"}

\* C5: a run's progress events come in strictly increasing file-index
\* order, one per file at most, all before the terminal event; there is at
\* most one terminal event, nothing follows it, a run that has ended has
\* exactly one, and a run that ended with the completion event emitted one
\* progress event for each of its files.
C5_EventOrder ==
    \A w \in WorkerIds :
        LET wk == workers[w]
            ev == wk.events
            n == Len(ev)
        IN  /\ \A a, b \in 1..n :
                  a < b /\ ev[a].type = "progress" /\ ev[b].type = "progress"
                      => ev[a].file < ev[b].file
            /\ \A a \in 1..n : ev[a].type = "progress" => ev[a].file \in 1..Len(wk.files)
            /\ \A a \in 1..n : Terminal(ev[a]) => a = n
            /\ wk.pc = "done" => n > 0 /\ Terminal(ev[n])
            /\ wk.pc # "done" => \A a \in 1..n : ~Terminal(ev[a])
            /\ n > 0 /\ ev[n].type = "finished" =>
                  /\ n = Len(wk.files) + 1
                  /\ \A a \in 1..Len(wk.files) : ev[a].type = "progress" /\ ev[a].file = a

\* A run over three files that ended with the completion event.
C5_Witness ==
    \E w \in WorkerIds :
        /\ Len(workers[w].files) = 3
        /\ workers[w].pc = "done"
        /\ Len(workers[w].events) = 4
        /\ workers[w].events[4].type = "finished"

\* C6 as stated: every progress event carries the integer nearest to
\* 100 * k / n.
C6_PercentIsRounded ==
    \A w \in WorkerIds : \A a \in 1..Len(workers[w].events) :
        LET e == workers[w].events[a]
            d == 100 * e.file - e.total * e.percent
        IN  e.type = "progress" => 2 * d <= e.total /\ -2 * d <= e.total

\* C6 as amended: every progress event carries 100 * k / n truncated to an
\* integer, and the last one of a run that completed carries 100.
C6_PercentIsTruncated ==
    \A w \in WorkerIds :
        LET ev == workers[w].events
        IN  /\ \A a \in 1..Len(ev) :
                  ev[a].type = "progress" =>
                      /\ ev[a].total = Len(workers[w].files)
                      /\ ev[a].total * ev[a].percent <= 100 * ev[a].file
                      /\ 100 * ev[a].file < ev[a].total * (ev[a].percent + 1)
            /\ Len(ev) > 1 /\ ev[Len(ev)].type = "finished" => ev[Len(ev) - 1].percent = 100

\* A completed merge of four files: 25, 50, 75, 100.
C6_Witness ==
    \E w \in WorkerIds :
        LET ev == workers[w].events
        IN  /\ Len(workers[w].files) = 4
            /\ Len(ev) = 5
            /\ ev[5].type = "finished"
            /\ <<ev[1].percent, ev[2].percent, ev[3].percent, ev[4].percent>>
                   = <<25, 50, 75, 100>>

\* C7: while a job runs, the set of positions it excludes is the set at
\* its launch, and what it writes is what its launch-time inputs determine.
C7_JobInputsAreSnapshots ==
    \A w \in WorkerIds :
        LET wk == workers[w]
        IN  /\ Running(wk) => excluded_pages = wk.excluded_at_start
            /\ wk.output = "written" => wk.written = Kept(wk.files, wk.excluded_at_start)

\* C8: at most one merge task is in flight.
C8_SingleMergeInFlight ==
    Cardinality({w \in WorkerIds : Running(workers[w])}) <= 1

\* C9: after closeEvent every temporary file a preview created has been
\* passed to os.remove.
C9_TempFilesRemovedOnClose ==
    closed => temp_created \subseteq temp_removed

\* C10: the "Total pages" label is the number of pages a merge launched now
\* would write: the positions 1..(sum of page counts) not in the exclusion set.
C10_LabelIsMergedPageCount ==
    page_count_label =
        Cardinality({p \in 1..SumPages(list_widget) : p \notin excluded_pages})

====
